---- MODULE Spec2Model ----
(***************************************************************************)
(* Model of the file cache of hgzimmerman/Homepage (src/src/cache.rs).     *)
(*                                                                         *)
(* The cache keeps two hash maps: file_map (path -> shared file) and       *)
(* access_count_map (path -> number of accesses), and a size_limit that    *)
(* store compares with the NUMBER of entries of file_map.                  *)
(***************************************************************************)
EXTENDS Integers, Sequences, FiniteSets, TLC

\* ---------------------------------------------------------------- bounds
\* Largest access count a path reaches (the guards of get / get_or_cache).
MaxCount == 2
\* Cache::new is tried with every limit 0..MaxLimit, and with 500.
MaxLimit == 2

\* ------------------------------------------------------------- constants
\* usize::MAX, the start value of the minimum search; clipped to the range
\* of the model checker's integers (every count of the model is far below).
USIZE_MAX == 2147483647

\* The limit the server's cache is built with: Cache::new(10) in main.
MainLimit == 10

\* ---------------------------------------------------------------- inputs
Paths == {"/a", "/b", "/c"}

\* SizedFile { bytes, size }: size is what read_to_end returned, the length
\* of the buffer.
SizedFile(buffer) == [bytes |-> buffer, size |-> Len(buffer)]

\* A buffer of n bytes, all equal to b.
Blob(n, b) == [i \in 1..n |-> b]

\* The contents a file on disk may have: an empty file, a 200-byte file and
\* a 400-byte file.
Buffers == {Blob(0, 7), Blob(200, 9), Blob(400, 5)}

Files == {SizedFile(b) : b \in Buffers}

\* io::Error kinds File::open / read_to_end may report.
IoErrors == {"NotFound", "Other"}

\* What the filesystem holds at a path at the moment it is read: a regular
\* file with some buffer, or something whose open / read fails.
Readable(buffer) == [readable |-> TRUE, buffer |-> buffer, err |-> "none"]
Unreadable(e) == [readable |-> FALSE, buffer |-> <<>>, err |-> e]
Disks == {Readable(b) : b \in Buffers} \cup {Unreadable(e) : e \in IoErrors}

\* The size limits a cache is built with.
Limits == (0..MaxLimit) \cup {500}

\* Option<T>
None == <<>>
Some(x) == <<x>>
IsSome(o) == Len(o) = 1
Unwrap(o) == o[1]

\* ----------------------------------------------------------------- state
VARIABLES
    size_limit,        \* Cache.size_limit
    file_map,          \* Cache.file_map: a function on the resident paths
    access_count_map,  \* Cache.access_count_map: a function on counted paths
    panicked,          \* a call has panicked (unwrap on None)
    calls,             \* history: number of get / get_or_cache calls per path
    last,              \* history: the last call, its inputs and its result
                       \* (follows: a get that comes right after a
                       \* get_or_cache of the same path that read the file)
    lock,              \* the Mutex around the server's cache: its holder
    poisoned,          \* the Mutex is poisoned (a holder panicked)
    hpc,               \* where each request handler of the server stands
    hreq               \* the path each request handler is serving

vars == <<size_limit, file_map, access_count_map, panicked, calls, last,
          lock, poisoned, hpc, hreq>>

\* The state of the server (main.rs) around the cache.
server_vars == <<lock, poisoned, hpc, hreq>>

\* The cache as a value (self).
Self == [size_limit |-> size_limit, file_map |-> file_map,
         access_count_map |-> access_count_map]

\* HashMap::insert / HashMap::remove
MapInsert(m, k, v) == [x \in (DOMAIN m) \cup {k} |-> IF x = k THEN v ELSE m[x]]
MapRemove(m, k) == [x \in (DOMAIN m) \ {k} |-> m[x]]
EmptyMap == [x \in {} |-> 0]

\* The orders in which HashMap::keys() may yield the keys of m.
KeyOrders(m) ==
    {ord \in [1..Cardinality(DOMAIN m) -> DOMAIN m] :
        \A i, j \in 1..Cardinality(DOMAIN m) : i # j => ord[i] # ord[j]}

\* Cache::size: the number of files in file_map.
size(self) == Cardinality(DOMAIN self.file_map)

\* Cache::size_bytes: the fold of the sizes of the files of file_map.
RECURSIVE SumSizes(_, _)
SumSizes(m, keys) ==
    IF keys = {} THEN 0
    ELSE LET k == CHOOSE x \in keys : TRUE
         IN  m[k].size + SumSizes(m, keys \ {k})

size_bytes(self) == SumSizes(self.file_map, DOMAIN self.file_map)

\* The loop of lowest_access_count_in_file_map over the keys in order ord,
\* from position i, with the running minimum (count, key).  The unwrap of a
\* missing access count panics.
RECURSIVE LowestLoop(_, _, _, _, _)
LowestLoop(self, ord, i, lowest_access_count, lowest_access_key) ==
    IF i > Len(ord)
    THEN [panic |-> FALSE, count |-> lowest_access_count, key |-> lowest_access_key]
    ELSE LET file_key == ord[i]
         IN  IF file_key \notin DOMAIN self.access_count_map
             THEN [panic |-> TRUE, count |-> lowest_access_count, key |-> lowest_access_key]
             ELSE LET access_count == self.access_count_map[file_key]
                  IN  IF access_count < lowest_access_count
                      THEN LowestLoop(self, ord, i + 1, access_count, file_key)
                      ELSE LowestLoop(self, ord, i + 1, lowest_access_count,
                                      lowest_access_key)

\* Cache::lowest_access_count_in_file_map: None for an empty file_map, else
\* the first key, in iteration order, with the least access count.
\* Result: [panic, some, count, key].
lowest_access_count_in_file_map(self, ord) ==
    IF Cardinality(DOMAIN self.file_map) = 0
    THEN [panic |-> FALSE, some |-> FALSE, count |-> 0, key |-> ""]
    ELSE LET r == LowestLoop(self, ord, 1, USIZE_MAX, "")
         IN  [panic |-> r.panic, some |-> TRUE, count |-> r.count, key |-> r.key]

\* The admission test of store: the candidate's access count against the
\* lowest access count in the cache.
\* Variant of the admission test: ties are admitted too.
has_more_demand_ge(possible_store_count, lowest_count) ==
    possible_store_count >= lowest_count

has_more_demand(possible_store_count, lowest_count) ==
    possible_store_count > lowest_count

\* Variant of store: the least accessed file is removed before the access
\* counts are compared, also when the candidate is then rejected.
store_in_order_remove_first(self, path, file, ord) ==
    IF size(self) < self.size_limit
    THEN [self |-> [self EXCEPT !.file_map = MapInsert(self.file_map, path, file)],
          result |-> "Ok", branch |-> "NotFull", removed |-> None]
    ELSE LET lowest == lowest_access_count_in_file_map(self, ord)
         IN  IF lowest.panic
             THEN [self |-> self, result |-> "Panic", branch |-> "Panic",
                   removed |-> None]
             ELSE IF lowest.some
             THEN LET lowest_count == lowest.count
                      lowest_key == lowest.key
                      possible_store_count ==
                          IF path \in DOMAIN self.access_count_map
                          THEN self.access_count_map[path] ELSE 0
                  IN  IF has_more_demand(possible_store_count, lowest_count)
                      THEN [self |-> [self EXCEPT !.file_map =
                                MapInsert(MapRemove(self.file_map, lowest_key),
                                          path, file)],
                            result |-> "Ok", branch |-> "Evict",
                            removed |-> Some(lowest_key)]
                      ELSE [self |-> [self EXCEPT !.file_map =
                                MapRemove(self.file_map, lowest_key)],
                            result |-> "Err", branch |-> "Reject",
                            removed |-> None]
             ELSE [self |-> [self EXCEPT !.file_map =
                                MapInsert(self.file_map, path, file)],
                   result |-> "Ok", branch |-> "First", removed |-> None]

\* Variant of store: the eviction branch removes the least accessed file
\* and does not insert the candidate.
store_in_order_evict_only(self, path, file, ord) ==
    IF size(self) < self.size_limit
    THEN [self |-> [self EXCEPT !.file_map = MapInsert(self.file_map, path, file)],
          result |-> "Ok", branch |-> "NotFull", removed |-> None]
    ELSE LET lowest == lowest_access_count_in_file_map(self, ord)
         IN  IF lowest.panic
             THEN [self |-> self, result |-> "Panic", branch |-> "Panic",
                   removed |-> None]
             ELSE IF lowest.some
             THEN LET lowest_count == lowest.count
                      lowest_key == lowest.key
                      possible_store_count ==
                          IF path \in DOMAIN self.access_count_map
                          THEN self.access_count_map[path] ELSE 0
                  IN  IF has_more_demand(possible_store_count, lowest_count)
                      THEN [self |-> [self EXCEPT !.file_map =
                                MapRemove(self.file_map, lowest_key)],
                            result |-> "Ok", branch |-> "Evict",
                            removed |-> Some(lowest_key)]
                      ELSE [self |-> self, result |-> "Err", branch |-> "Reject",
                            removed |-> None]
             ELSE [self |-> [self EXCEPT !.file_map =
                                MapInsert(self.file_map, path, file)],
                   result |-> "Ok", branch |-> "First", removed |-> None]

\* Cache::store for one iteration order ord of file_map.keys().  Result: the
\* cache after the call, the returned Result ("Ok", "Err", or "Panic" when
\* the call unwinds), the branch taken and the key removed, if any.
store_in_order(self, path, file, ord) ==
    IF size(self) < self.size_limit
    THEN [self |-> [self EXCEPT !.file_map = MapInsert(self.file_map, path, file)],
          result |-> "Ok", branch |-> "NotFull", removed |-> None]
    ELSE LET lowest == lowest_access_count_in_file_map(self, ord)
         IN  IF lowest.panic
             THEN [self |-> self, result |-> "Panic", branch |-> "Panic",
                   removed |-> None]
             ELSE IF lowest.some
             THEN LET lowest_count == lowest.count
                      lowest_key == lowest.key
                      possible_store_count ==
                          IF path \in DOMAIN self.access_count_map
                          THEN self.access_count_map[path] ELSE 0
                  IN  IF has_more_demand(possible_store_count, lowest_count)
                      THEN [self |-> [self EXCEPT !.file_map =
                                MapInsert(MapRemove(self.file_map, lowest_key),
                                          path, file)],
                            result |-> "Ok", branch |-> "Evict",
                            removed |-> Some(lowest_key)]
                      ELSE [self |-> self, result |-> "Err", branch |-> "Reject",
                            removed |-> None]
             ELSE [self |-> [self EXCEPT !.file_map =
                                MapInsert(self.file_map, path, file)],
                   result |-> "Ok", branch |-> "First", removed |-> None]

\* Cache::store: the outcomes the call can have, one per iteration order of
\* the hash map (the order matters only once the map is full).
store(self, path, file) ==
    IF size(self) < self.size_limit
    THEN {store_in_order(self, path, file, <<>>)}
    ELSE {store_in_order(self, path, file, ord) : ord \in KeyOrders(self.file_map)}

\* Variant of get: a miss sets the count to 1 instead of adding 1.
get_reset_on_miss(self, path) ==
    LET count == IF path \in DOMAIN self.access_count_map
                 THEN self.access_count_map[path] ELSE 0
        self1 == IF path \in DOMAIN self.file_map
                 THEN [self EXCEPT !.access_count_map =
                          MapInsert(self.access_count_map, path, count + 1)]
                 ELSE [self EXCEPT !.access_count_map =
                          MapInsert(self.access_count_map, path, 1)]
    IN  [self |-> self1,
         ret |-> IF path \in DOMAIN self1.file_map
                 THEN Some([path |-> path, file |-> self1.file_map[path]])
                 ELSE None]

\* Variant of get: a hit takes the entry out of file_map.
get_take(self, path) ==
    LET count == IF path \in DOMAIN self.access_count_map
                 THEN self.access_count_map[path] ELSE 0
        self1 == [self EXCEPT !.access_count_map =
                     MapInsert(self.access_count_map, path, count + 1)]
    IN  [self |-> [self1 EXCEPT !.file_map = MapRemove(self1.file_map, path)],
         ret |-> IF path \in DOMAIN self1.file_map
                 THEN Some([path |-> path, file |-> self1.file_map[path]])
                 ELSE None]

\* Variant of get: only an existing count is incremented, a first access
\* creates no entry.
get_no_insert(self, path) ==
    LET self1 == IF path \in DOMAIN self.access_count_map
                 THEN [self EXCEPT !.access_count_map =
                          MapInsert(self.access_count_map, path,
                                    self.access_count_map[path] + 1)]
                 ELSE self
    IN  [self |-> self1,
         ret |-> IF path \in DOMAIN self1.file_map
                 THEN Some([path |-> path, file |-> self1.file_map[path]])
                 ELSE None]

\* Cache::get: increments the access count, returns the cached file if the
\* path is in file_map.
get(self, path) ==
    LET count == IF path \in DOMAIN self.access_count_map
                 THEN self.access_count_map[path] ELSE 0
        self1 == [self EXCEPT !.access_count_map =
                     MapInsert(self.access_count_map, path, count + 1)]
    IN  [self |-> self1,
         ret |-> IF path \in DOMAIN self1.file_map
                 THEN Some([path |-> path, file |-> self1.file_map[path]])
                 ELSE None]

\* Variant of SizedFile::open: a failed read yields an empty file.
SizedFile_open_lenient(disk) ==
    [ok |-> TRUE, file |-> SizedFile(disk.buffer), err |-> "none"]

\* SizedFile::open applied to what the filesystem holds at the path:
\* Ok(SizedFile) with the whole buffer, or Err(io::Error).
SizedFile_open(disk) ==
    IF disk.readable
    THEN [ok |-> TRUE, file |-> SizedFile(disk.buffer), err |-> "none"]
    ELSE [ok |-> FALSE, file |-> SizedFile(<<>>), err |-> disk.err]

\* Cache::get_or_cache, given the outcome s of the store call it makes on a
\* miss whose read succeeds.  Result: the cache after the call, the returned
\* Option<CachedFile>, what the reader was invoked on (if it was), the
\* branch taken and the key removed.
\* Variant of get_or_cache: the Err of store is passed on as None.
get_or_cache_with_try(pathbuf, disk, s) ==
    LET sized_file == SizedFile_open(disk)
        cached_file == [path |-> pathbuf, file |-> sized_file.file]
    IN  IF s.result = "Panic"
        THEN [self |-> s.self, ret |-> None, read |-> Some(disk),
              panic |-> TRUE, branch |-> "Panic", removed |-> None]
        ELSE [self |-> s.self,
              ret |-> IF s.result = "Ok" THEN Some(cached_file) ELSE None,
              read |-> Some(disk), panic |-> FALSE,
              branch |-> s.branch, removed |-> s.removed]

\* Variant of get_or_cache: the handle returned is built from a new, empty
\* SizedFile instead of the file read.
get_or_cache_with_blank(pathbuf, disk, s) ==
    LET sized_file == SizedFile_open(disk)
        cached_file == [path |-> pathbuf, file |-> SizedFile(<<>>)]
    IN  IF s.result = "Panic"
        THEN [self |-> s.self, ret |-> None, read |-> Some(disk),
              panic |-> TRUE, branch |-> "Panic", removed |-> None]
        ELSE [self |-> s.self, ret |-> Some(cached_file),
              read |-> Some(disk), panic |-> FALSE,
              branch |-> s.branch, removed |-> s.removed]

get_or_cache_with(pathbuf, disk, s) ==
    LET sized_file == SizedFile_open(disk)
        cached_file == [path |-> pathbuf, file |-> sized_file.file]
    IN  IF s.result = "Panic"
        THEN [self |-> s.self, ret |-> None, read |-> Some(disk),
              panic |-> TRUE, branch |-> "Panic", removed |-> None]
        ELSE [self |-> s.self, ret |-> Some(cached_file),
              read |-> Some(disk), panic |-> FALSE,
              branch |-> s.branch, removed |-> s.removed]

\* Variant of get_or_cache: the result of get is not used, the file is
\* always read.
get_or_cache_always_read(self, pathbuf, disk) ==
    LET g == get(self, pathbuf)
        sized_file == SizedFile_open(disk)
    IN  IF sized_file.ok
        THEN {get_or_cache_with(pathbuf, disk, s) :
                 s \in store(g.self, pathbuf, sized_file.file)}
        ELSE {[self |-> g.self, ret |-> None, read |-> Some(disk),
               panic |-> FALSE, branch |-> "ReadFailed", removed |-> None]}

\* Cache::get_or_cache: the outcomes the call can have.  disk is what the
\* filesystem holds at pathbuf when (and if) the file is read.
get_or_cache(self, pathbuf, disk) ==
    LET g == get(self, pathbuf)
        sized_file == SizedFile_open(disk)
    IN  IF IsSome(g.ret)
        THEN {[self |-> g.self, ret |-> g.ret, read |-> None, panic |-> FALSE,
               branch |-> "Hit", removed |-> None]}
        ELSE IF sized_file.ok
        THEN {get_or_cache_with(pathbuf, disk, s) :
                 s \in store(g.self, pathbuf, sized_file.file)}
        ELSE {[self |-> g.self, ret |-> None, read |-> Some(disk),
               panic |-> FALSE, branch |-> "ReadFailed", removed |-> None]}

\* ------------------------------------------------------------ the machine
NoCall == [op |-> "new", path |-> "", arg |-> None, read |-> None,
           ret |-> None, result |-> "none", branch |-> "none", removed |-> None,
           follows |-> FALSE]

\* The threads that run the request handler.
Handlers == {"h1", "h2"}

\* rocket::ignite().manage(cache): the Mutex is free, no request is served.
ServerIdle ==
    /\ lock = "free"
    /\ poisoned = FALSE
    /\ hpc = [h \in Handlers |-> "idle"]
    /\ hreq = [h \in Handlers |-> ""]

\* Cache::new(size_limit)
Init ==
    /\ size_limit \in Limits
    /\ file_map = EmptyMap
    /\ access_count_map = EmptyMap
    /\ panicked = FALSE
    /\ calls = [p \in Paths |-> 0]
    /\ last = NoCall
    /\ ServerIdle

Install(self) ==
    /\ size_limit' = self.size_limit
    /\ file_map' = self.file_map
    /\ access_count_map' = self.access_count_map

\* A call of cache.get(&path).
Get(path) ==
    /\ ~panicked
    /\ calls[path] < MaxCount
    /\ LET g == get(Self, path)
       IN  /\ Install(g.self)
           /\ last' = [op |-> "get", path |-> path, arg |-> None, read |-> None,
                       ret |-> g.ret, result |-> "none",
                       branch |-> IF IsSome(g.ret) THEN "Hit" ELSE "Miss",
                       removed |-> None,
                       follows |-> /\ last.op = "get_or_cache"
                                   /\ last.path = path
                                   /\ IsSome(last.read)
                                   /\ IsSome(last.ret)]
    /\ calls' = [calls EXCEPT ![path] = @ + 1]
    /\ UNCHANGED panicked
    /\ UNCHANGED server_vars

\* A call of cache.get_or_cache(pathbuf).
GetOrCache(pathbuf) ==
    /\ ~panicked
    /\ calls[pathbuf] < MaxCount
    /\ \E disk \in Disks :
       \E r \in get_or_cache(Self, pathbuf, disk) :
              /\ Install(r.self)
              /\ panicked' = r.panic
              /\ last' = [op |-> "get_or_cache", path |-> pathbuf, arg |-> None,
                          read |-> r.read, ret |-> r.ret, result |-> "none",
                          branch |-> r.branch,
                          removed |-> r.removed, follows |-> FALSE]
    /\ calls' = [calls EXCEPT ![pathbuf] = @ + 1]
    /\ UNCHANGED server_vars

\* A call of the public cache.store(path, file).
Store(path, file) ==
    /\ ~panicked
    /\ \E s \in store(Self, path, file) :
              /\ Install(s.self)
              /\ panicked' = (s.result = "Panic")
              /\ last' = [op |-> "store", path |-> path, arg |-> Some(file),
                          read |-> None, ret |-> None, result |-> s.result,
                          branch |-> s.branch, removed |-> s.removed,
                          follows |-> FALSE]
    /\ UNCHANGED calls
    /\ UNCHANGED server_vars

Next ==
    \/ \E path \in Paths : Get(path)
    \/ \E pathbuf \in Paths : GetOrCache(pathbuf)
    \/ \E path \in Paths, file \in Files : Store(path, file)

Spec == Init /\ [][Next]_vars

\* The cache used through get and get_or_cache only (store is then called
\* by get_or_cache alone).
NextGC ==
    \/ \E path \in Paths : Get(path)
    \/ \E pathbuf \in Paths : GetOrCache(pathbuf)

SpecGC == Init /\ [][NextGC]_vars

\* ------------------------------------------------------------ vocabulary
\* The resident paths, the bytes in use, the access count of a path.
Resident == DOMAIN file_map
used_bytes == size_bytes(Self)
CountOf(acm, p) == IF p \in DOMAIN acm THEN acm[p] ELSE 0

\* ------------------------------------------------------------ the server
\* main.rs: request handlers share one Mutex<Cache>.  In SpecServer the
\* variables size_limit, file_map and access_count_map hold the Cache of
\* main.rs, which has the same three fields.

\* Path::new("www/").join(path)
www(path) == <<"www", path>>

\* Cache::get of main.rs: increments the access count, returns the file of
\* file_map if there is one.
main_get(self, path) ==
    LET count == IF path \in DOMAIN self.access_count_map
                 THEN self.access_count_map[path] ELSE 0
    IN  [self |-> [self EXCEPT !.access_count_map =
                      MapInsert(self.access_count_map, path, count + 1)],
         ret |-> IF path \in DOMAIN self.file_map
                 THEN Some(self.file_map[path]) ELSE None]

\* main: Mutex::new(Cache::new(10)), managed by rocket.
InitServer ==
    /\ size_limit = MainLimit
    /\ file_map = EmptyMap
    /\ access_count_map = EmptyMap
    /\ panicked = FALSE
    /\ calls = [p \in Paths |-> 0]
    /\ last = NoCall
    /\ ServerIdle

\* A request for path arrives at handler h: homepage_files(path, cache).
HRequest(h, path) ==
    /\ hpc[h] = "idle"
    /\ hpc' = [hpc EXCEPT ![h] = "lock"]
    /\ hreq' = [hreq EXCEPT ![h] = path]
    /\ UNCHANGED <<size_limit, file_map, access_count_map, panicked, calls, last,
                   lock, poisoned>>

\* The scrutinee of the match: cache.lock().unwrap().get(&pathbuf).  lock()
\* waits for the Mutex; unwrap panics on a poisoned Mutex.  The guard is a
\* temporary of the scrutinee: it lives to the end of the match.
HLock(h) ==
    /\ hpc[h] = "lock"
    /\ lock = "free"
    /\ CountOf(access_count_map, www(hreq[h])) < MaxCount
    /\ IF poisoned
       THEN /\ hpc' = [hpc EXCEPT ![h] = "panicked"]
            /\ UNCHANGED <<size_limit, file_map, access_count_map, lock>>
       ELSE LET g == main_get(Self, www(hreq[h]))
            IN  /\ Install(g.self)
                /\ lock' = h
                /\ hpc' = [hpc EXCEPT ![h] =
                              IF IsSome(g.ret) THEN "some" ELSE "none"]
    /\ UNCHANGED <<panicked, calls, last, poisoned, hreq>>

\* The None arm: MyNamedFile::open(pathbuf.as_path()).ok()
HOpen(h) ==
    /\ hpc[h] = "none"
    /\ \E disk \in Disks :
          hpc' = [hpc EXCEPT ![h] = IF disk.readable THEN "opened" ELSE "absent"]
    /\ UNCHANGED <<size_limit, file_map, access_count_map, panicked, calls, last,
                   lock, poisoned, hreq>>

\* The None arm, file opened: cache.lock().unwrap().store(path, actual_f).
\* The thread that holds a std Mutex and locks it again never gets the
\* lock: the call deadlocks or panics.  A panic unwinds through the guard
\* of the scrutinee, which poisons the Mutex and releases it.
HRelock(h) ==
    /\ hpc[h] = "opened"
    /\ lock = h
    /\ \/ /\ hpc' = [hpc EXCEPT ![h] = "deadlocked"]
          /\ UNCHANGED <<lock, poisoned>>
       \/ /\ hpc' = [hpc EXCEPT ![h] = "panicked"]
          /\ lock' = "free"
          /\ poisoned' = TRUE
    /\ UNCHANGED <<size_limit, file_map, access_count_map, panicked, calls, last,
                   hreq>>

\* The end of the match in the Some arm and in the None arm without a
\* file: the guard of the scrutinee is dropped, the handler returns.
HReturn(h) ==
    /\ hpc[h] \in {"some", "absent"}
    /\ lock = h
    /\ lock' = "free"
    /\ hpc' = [hpc EXCEPT ![h] = "idle"]
    /\ UNCHANGED <<size_limit, file_map, access_count_map, panicked, calls, last,
                   poisoned, hreq>>

NextServer ==
    \/ \E h \in Handlers, path \in Paths : HRequest(h, path)
    \/ \E h \in Handlers : HLock(h)
    \/ \E h \in Handlers : HOpen(h)
    \/ \E h \in Handlers : HRelock(h)
    \/ \E h \in Handlers : HReturn(h)

SpecServer == InitServer /\ [][NextServer]_vars

TypeOK ==
    /\ size_limit \in Limits
    /\ DOMAIN file_map \subseteq Paths
    /\ \A p \in DOMAIN file_map : file_map[p] \in Files
    /\ DOMAIN access_count_map \subseteq Paths
    /\ \A p \in DOMAIN access_count_map : access_count_map[p] \in 1..MaxCount
    /\ panicked \in BOOLEAN

\* ================================================================ claims
\* What the last call read, when the reader was invoked and succeeded.
ReadOk(l) == IsSome(l.read) /\ Unwrap(l.read).readable
ReadFile(l) == SizedFile(Unwrap(l.read).buffer)
ReadFailed(l) == IsSome(l.read) /\ ~Unwrap(l.read).readable
BytesOf(fm) == SumSizes(fm, DOMAIN fm)
OtherCountsSame(p) ==
    \A q \in Paths \ {p} :
        /\ (q \in DOMAIN access_count_map') = (q \in DOMAIN access_count_map)
        /\ CountOf(access_count_map', q) = CountOf(access_count_map, q)

\* C1: after any sequence of get, get_or_cache and store calls on a cache
\* built with a size limit L >= 1, the sum of the byte sizes of the resident
\* files is at most L.
C1_UsedBytesWithinLimit == size_limit >= 1 => used_bytes <= size_limit

\* C2: a file whose byte size exceeds the size limit (L >= 1) is never
\* resident.
C2_OversizedNeverResident ==
    size_limit >= 1 => \A p \in Resident : file_map[p].size <= size_limit

\* C3: the access count of every path equals the number of get and
\* get_or_cache calls made with it, a path has a count iff it was passed to
\* one of them, and no step lowers or removes a count.
C3_CountEqualsCalls ==
    /\ [](\A p \in Paths :
            /\ CountOf(access_count_map, p) = calls[p]
            /\ (p \in DOMAIN access_count_map) = (calls[p] >= 1))
    /\ [][\A p \in Paths :
            /\ CountOf(access_count_map', p) >= CountOf(access_count_map, p)
            /\ p \in DOMAIN access_count_map => p \in DOMAIN access_count_map']_vars

\* C3 witness: a path was evicted by a later get_or_cache and still has the
\* count of its calls.
C3_Witness ==
    /\ last.op = "get_or_cache" /\ last.branch = "Evict"
    /\ Unwrap(last.removed) \notin Resident
    /\ CountOf(access_count_map, Unwrap(last.removed)) >= 1
    /\ CountOf(access_count_map, last.path) >= 2

\* C4: whenever a step removes a resident entry V, it is an admission of a
\* candidate whose access count, at the decision, is strictly greater than
\* V's.
C4_EvictOnlyLessPopular ==
    [][\A v \in DOMAIN file_map :
          v \notin DOMAIN file_map' =>
             /\ last'.branch = "Evict"
             /\ last'.path \in DOMAIN file_map'
             /\ CountOf(access_count_map', last'.path)
                   > CountOf(access_count_map', v)]_vars

\* C4 witness: an admission has evicted an entry while another entry with a
\* higher count stayed.
C4_Witness ==
    /\ last.branch = "Evict"
    /\ Unwrap(last.removed) \notin Resident
    /\ \E q \in Resident \ {last.path} :
          CountOf(access_count_map, q)
             > CountOf(access_count_map, Unwrap(last.removed))

\* C5: a get_or_cache whose read succeeded returns a handle with the bytes
\* just read in each admission outcome of store: admitted without eviction,
\* admitted after eviction, rejected.
C5_HandleWhateverStoreSays ==
    (last.op = "get_or_cache" /\ ReadOk(last)
        /\ last.branch \in {"NotFull", "First", "Evict", "Reject"})
    => last.ret = Some([path |-> last.path, file |-> ReadFile(last)])

\* C5 witness: store rejected the file and the caller got its bytes.
C5_Witness ==
    /\ last.op = "get_or_cache" /\ ReadOk(last) /\ last.branch = "Reject"
    /\ last.ret = Some([path |-> last.path, file |-> ReadFile(last)])
    /\ last.path \notin Resident

\* C6: a get_or_cache of a non-resident path whose read fails returns none,
\* leaves file_map (and so used_bytes) as it was and adds exactly 1 to the
\* count of the path.
C6_ReadFailureFrame ==
    [][(last'.op = "get_or_cache" /\ last'.path \notin DOMAIN file_map
            /\ ReadFailed(last'))
        => /\ last'.ret = None
           /\ file_map' = file_map
           /\ BytesOf(file_map') = BytesOf(file_map)
           /\ last'.path \in DOMAIN access_count_map'
           /\ access_count_map'[last'.path]
                 = CountOf(access_count_map, last'.path) + 1
           /\ OtherCountsSame(last'.path)
           /\ ~panicked']_vars

\* C6 witness: a read failed with an error other than NotFound while files
\* were resident.
C6_Witness ==
    /\ last.op = "get_or_cache" /\ last.read = Some(Unreadable("Other"))
    /\ last.ret = None
    /\ Resident # {}
    /\ CountOf(access_count_map, last.path) = 1

\* C7: get leaves file_map exactly as it was, changes only the count of its
\* path and does not invoke the reader.
C7_GetFrame ==
    [][last'.op = "get"
        => /\ file_map' = file_map
           /\ size_limit' = size_limit
           /\ OtherCountsSame(last'.path)
           /\ access_count_map'[last'.path]
                 = CountOf(access_count_map, last'.path) + 1
           /\ last'.read = None]_vars

\* C7 witness: a get has hit a resident path.
C7_Witness ==
    /\ last.op = "get" /\ IsSome(last.ret)
    /\ last.path \in Resident
    /\ Unwrap(last.ret).file = file_map[last.path]

\* C8: get_or_cache of a resident path returns a handle to the resident
\* file without invoking the reader, leaves file_map and used_bytes as they
\* were, and adds 1 to the count of the path only.
C8_HitFrame ==
    [][(last'.op = "get_or_cache" /\ last'.path \in DOMAIN file_map)
        => /\ last'.ret = Some([path |-> last'.path, file |-> file_map[last'.path]])
           /\ last'.read = None
           /\ file_map' = file_map
           /\ BytesOf(file_map') = BytesOf(file_map)
           /\ access_count_map'[last'.path]
                 = CountOf(access_count_map, last'.path) + 1
           /\ OtherCountsSame(last'.path)]_vars

\* C8 witness: a second get_or_cache of a resident path was served from the
\* cache.
C8_Witness ==
    /\ last.op = "get_or_cache" /\ last.branch = "Hit"
    /\ last.read = None
    /\ last.ret = Some([path |-> last.path, file |-> file_map[last.path]])
    /\ CountOf(access_count_map, last.path) = 2

\* C9: a successfully read, non-resident file that fits without eviction
\* (used_bytes + size <= size limit) is admitted by get_or_cache: it is
\* resident afterwards, used_bytes grew by its size and no entry was removed.
C9_FittingFileAdmitted ==
    [][(last'.op = "get_or_cache" /\ last'.path \notin DOMAIN file_map
            /\ ReadOk(last') /\ ~panicked'
            /\ BytesOf(file_map) + ReadFile(last').size <= size_limit)
        => /\ last'.path \in DOMAIN file_map'
           /\ BytesOf(file_map') = BytesOf(file_map) + ReadFile(last').size
           /\ \A q \in DOMAIN file_map : q \in DOMAIN file_map']_vars

\* C10: with limit 500, A (400 bytes, count 1) resident alone and B 200
\* bytes, a get_or_cache(B) leaves the cache as it was while count(B) <=
\* count(A), and the first call with count(B) > count(A) leaves exactly B
\* resident, A's count 1 and B's count 2.
C10_ScenarioS3 ==
    [][(/\ size_limit = 500
        /\ DOMAIN file_map = {"/a"}
        /\ file_map["/a"].size = 400
        /\ CountOf(access_count_map, "/a") = 1
        /\ last'.op = "get_or_cache" /\ last'.path = "/b"
        /\ ReadOk(last') /\ ReadFile(last').size = 200)
        => IF CountOf(access_count_map', "/b") <= CountOf(access_count_map', "/a")
           THEN file_map' = file_map
           ELSE /\ DOMAIN file_map' = {"/b"}
                /\ BytesOf(file_map') = 200
                /\ CountOf(access_count_map', "/a") = 1
                /\ CountOf(access_count_map', "/b") = 2]_vars

\* The paths in lexicographic order.
PathOrder == <<"/a", "/b", "/c">>
Rank(p) == CHOOSE i \in 1..Len(PathOrder) : PathOrder[i] = p

\* C11: the entry evicted has the minimum access count among the resident
\* entries, and among resident entries of the same count and size it is the
\* lexicographically earliest path.
C11_VictimDeterministic ==
    [][last'.branch = "Evict"
        => LET v == Unwrap(last'.removed)
           IN  /\ \A q \in DOMAIN file_map :
                     CountOf(access_count_map', q) >= CountOf(access_count_map', v)
               /\ ~ \E q \in DOMAIN file_map :
                     /\ CountOf(access_count_map', q) = CountOf(access_count_map', v)
                     /\ file_map[q].size = file_map[v].size
                     /\ Rank(q) < Rank(v)]_vars

\* C12: after any sequence of get and get_or_cache calls every resident
\* path has an access count >= 1, and a path that a step evicts keeps the
\* count it had before the step.
C12_ResidentCounted ==
    /\ [](\A p \in Resident :
            p \in DOMAIN access_count_map /\ access_count_map[p] >= 1)
    /\ [][\A v \in DOMAIN file_map :
            v \notin DOMAIN file_map' =>
               /\ v \in DOMAIN access_count_map'
               /\ access_count_map'[v] = access_count_map[v]]_vars

\* C12 witness: a get_or_cache has evicted a path, which is no longer
\* resident and is still counted, beside another resident path.
C12_Witness ==
    /\ last.op = "get_or_cache" /\ last.branch = "Evict"
    /\ Unwrap(last.removed) \notin Resident
    /\ Unwrap(last.removed) \in DOMAIN access_count_map
    /\ Cardinality(Resident) = 2

\* C13: no sequence of get, get_or_cache and store calls panics.
C13_NeverPanics == ~panicked

C15_ZeroLimitRefused == size_limit = 0 => Resident = {}

\* C17: storing a path that is already resident leaves the set of resident
\* paths as it was (no other entry is evicted), in every cache state.
C17_RestoreKeepsResidents ==
    [][(last'.op = "store" /\ last'.path \in DOMAIN file_map /\ ~panicked')
        => DOMAIN file_map' = DOMAIN file_map]_vars

\* C18: when store rejects the candidate, file_map and the access counts
\* are as they were before the store call (for the store inside
\* get_or_cache: as get left them).
C18_RejectFrame ==
    [][last'.branch = "Reject"
        => /\ file_map' = file_map
           /\ OtherCountsSame(last'.path)
           /\ last'.op = "store"
                 => /\ last'.result = "Err"
                    /\ access_count_map' = access_count_map
           /\ last'.op = "get_or_cache"
                 => access_count_map'[last'.path]
                       = CountOf(access_count_map, last'.path) + 1]_vars

\* C18 witness: a public store of a non-resident path was rejected by a
\* full cache of two files.
C18_Witness ==
    /\ last.op = "store" /\ last.result = "Err" /\ last.branch = "Reject"
    /\ last.path \notin Resident
    /\ Cardinality(Resident) = 2

\* C19: the number of resident entries is at most the limit the cache was
\* created with, for every limit n >= 0.
C19_EntriesWithinLimit == Cardinality(Resident) <= size_limit

\* C20: a call removes at most one resident entry, and only in a step that
\* inserts its candidate; the number of resident entries does not decrease
\* across a call whose path was not resident.
C20_AtMostOneRemoved ==
    [][LET gone == DOMAIN file_map \ DOMAIN file_map'
       IN  /\ Cardinality(gone) <= 1
           /\ gone # {} =>
                 /\ last'.op \in {"store", "get_or_cache"}
                 /\ last'.path \in DOMAIN file_map'
                 /\ file_map'[last'.path] =
                       (IF last'.op = "store" THEN Unwrap(last'.arg)
                        ELSE ReadFile(last'))
           /\ last'.path \notin DOMAIN file_map =>
                 Cardinality(DOMAIN file_map') >= Cardinality(DOMAIN file_map)]_vars

\* C20 witness: a public store has evicted one entry and inserted its
\* candidate, the number of entries staying 2.
C20_Witness ==
    /\ last.op = "store" /\ last.branch = "Evict"
    /\ Unwrap(last.removed) \notin Resident
    /\ last.path \in Resident /\ file_map[last.path] = Unwrap(last.arg)
    /\ Cardinality(Resident) = 2

\* C16: a handler never tries to acquire the cache lock while it still
\* holds it (so every invocation can release the lock and return).
C16_NoRelockWhileHolding ==
    \A h \in Handlers : hpc[h] = "opened" => lock # h

====
